---- MODULE Spec2Model ----
(***************************************************************************)
(* prmptr: a prompt-chain file is parsed into a Definition Table, a        *)
(* Dependency Graph is built from it, an Execution Order (and, for the     *)
(* parallel path, Depth Levels) is computed, and the chain is executed     *)
(* sequentially or level by level with a thread pool.                      *)
(*                                                                         *)
(* Text is modelled as a sequence of tokens.  A token is either a piece of *)
(* plain text ("t", "i", "g") or one complete reference "[[name]]"; the    *)
(* regular expression of find_dependencies matches exactly the reference   *)
(* tokens, and str.replace("[[name]]", v) replaces exactly those tokens.   *)
(***************************************************************************)
EXTENDS Integers, Sequences, FiniteSets, TLC

\* ------------------------------------------------------------------ bounds
\* Total number of tokens in all templates of one Definition Table.
MaxTokens == 3
\* Largest value of the --max-workers option.
MaxWorkers == 2
\* Largest number of fragments a caller hands to an execution function.
MaxGiven == 2

\* ------------------------------------------------------------------- names
INPUT_NODE_NAME == "input text"
OUTPUT == "output"

\* Fragment names a prompt file of the model may define or reference, in the
\* order in which the file defines them.
NameOrder == <<"output", "a", "b", "input text">>
Names == {NameOrder[i] : i \in 1..Len(NameOrder)}

\* The text "[[name]]".
RefTok(name) ==
  CASE name = "output" -> "[[output]]"
    [] name = "a" -> "[[a]]"
    [] name = "b" -> "[[b]]"
    [] name = "input text" -> "[[input text]]"

RefTokens == {RefTok(n) : n \in Names}
NameOfRef(tok) == CHOOSE n \in Names : RefTok(n) = tok

\* Plain text of a template, of the initial input, of a generated response.
TemplateTokens == {"t"} \cup RefTokens

\* ---------------------------------------------------------------- helpers
Range(s) == {s[i] : i \in 1..Len(s)}

RECURSIVE SeqsOfLen(_, _)
SeqsOfLen(S, n) ==
  IF n = 0 THEN {<<>>}
  ELSE {<<x>> \o s : x \in S, s \in SeqsOfLen(S, n - 1)}

SeqsUpTo(S, n) == UNION {SeqsOfLen(S, k) : k \in 0..n}

RECURSIVE Flatten(_)
Flatten(ss) == IF ss = <<>> THEN <<>> ELSE Head(ss) \o Flatten(Tail(ss))

\* ------------------------------------------------------------- utils.py
\* find_dependencies: every "[[...]]" of the text, left to right, duplicates
\* kept.
RECURSIVE find_dependencies(_)
find_dependencies(prompt_text) ==
  IF prompt_text = <<>> THEN <<>>
  ELSE IF Head(prompt_text) \in RefTokens
       THEN <<NameOfRef(Head(prompt_text))>> \o find_dependencies(Tail(prompt_text))
       ELSE find_dependencies(Tail(prompt_text))

\* A Definition Table is a sequence of [name, template] in definition order
\* (a Python dict keeps insertion order); a Dependency Graph is the sequence
\* of [name, deps] in the same order.
build_dependency_graph(prompt_definitions) ==
  [i \in 1..Len(prompt_definitions) |->
     [name |-> prompt_definitions[i].name,
      deps |-> find_dependencies(prompt_definitions[i].template)]]

Keys(d) == {d[i].name : i \in 1..Len(d)}
KeySeq(d) == [i \in 1..Len(d) |-> d[i].name]
DepsOf(graph, node) == graph[CHOOSE i \in 1..Len(graph) : graph[i].name = node].deps

\* resolve_execution_order.visit: st is the closure state [order, visiting,
\* visited] plus the pending ValueError (raised, node).
RECURSIVE visit(_, _, _)
RECURSIVE visit_dependencies(_, _, _)

\* visit appending the node before its dependencies are visited.
visit_preorder(graph, node, st) ==
  IF st.raised THEN st
  ELSE IF node \in st.visited THEN st
  ELSE IF node \in st.visiting THEN [st EXCEPT !.raised = TRUE, !.node = node]
  ELSE LET s0 == [st EXCEPT !.order = IF node \in Keys(graph) THEN Append(@, node) ELSE @]
           s1 == IF node \in Keys(graph)
                 THEN LET s2 == visit_dependencies(graph, DepsOf(graph, node),
                                   [s0 EXCEPT !.visiting = @ \cup {node}])
                      IN IF s2.raised THEN s2
                         ELSE [s2 EXCEPT !.visiting = @ \ {node}]
                 ELSE s0
       IN IF s1.raised THEN s1 ELSE [s1 EXCEPT !.visited = @ \cup {node}]

\* visit returning from a node on the active path as if it were finished.
visit_unguarded(graph, node, st) ==
  IF st.raised THEN st
  ELSE IF node \in st.visited \cup st.visiting THEN st
  ELSE LET s1 == IF node \in Keys(graph)
                 THEN LET s2 == visit_dependencies(graph, DepsOf(graph, node),
                                   [st EXCEPT !.visiting = @ \cup {node}])
                      IN [s2 EXCEPT !.visiting = @ \ {node}]
                 ELSE st
       IN [s1 EXCEPT !.visited = @ \cup {node},
                     !.order = IF node \in Keys(graph) THEN Append(@, node) ELSE @]

visit(graph, node, st) ==
  IF st.raised THEN st
  ELSE IF node \in st.visited THEN st
  ELSE IF node \in st.visiting THEN [st EXCEPT !.raised = TRUE, !.node = node]
  ELSE LET s1 == IF node \in Keys(graph)
                 THEN LET s2 == visit_dependencies(graph, DepsOf(graph, node),
                                   [st EXCEPT !.visiting = @ \cup {node}])
                      IN IF s2.raised THEN s2
                         ELSE [s2 EXCEPT !.visiting = @ \ {node}]
                 ELSE st
       IN IF s1.raised THEN s1
          ELSE [s1 EXCEPT !.visited = @ \cup {node},
                          !.order = IF node \in Keys(graph) THEN Append(@, node) ELSE @]

\* for dependency in graph[node]: visit(dependency)
visit_dependencies(graph, dependencies, st) ==
  IF dependencies = <<>> \/ st.raised THEN st
  ELSE visit_dependencies(graph, Tail(dependencies), visit(graph, Head(dependencies), st))

\* resolve_execution_order without the test of lines 102-103.
resolve_execution_order_unchecked(graph) ==
  LET st == visit(graph, OUTPUT,
              [order |-> <<>>, visiting |-> {}, visited |-> {},
               raised |-> FALSE, node |-> OUTPUT])
  IN IF st.raised
     THEN [status |-> "CyclicDependency", order |-> <<>>, node |-> st.node]
     ELSE [status |-> "ok", order |-> st.order, node |-> OUTPUT]

\* resolve_execution_order: the order, or the ValueError it raises.
resolve_execution_order(graph) ==
  IF OUTPUT \notin Keys(graph)
  THEN [status |-> "MissingOutputNode", order |-> <<>>, node |-> OUTPUT]
  ELSE LET st == visit(graph, OUTPUT,
                   [order |-> <<>>, visiting |-> {}, visited |-> {},
                    raised |-> FALSE, node |-> OUTPUT])
       IN IF st.raised
          THEN [status |-> "CyclicDependency", order |-> <<>>, node |-> st.node]
          ELSE [status |-> "ok", order |-> st.order, node |-> OUTPUT]

\* The dict `depths` of find_parallel_groups, in insertion order.
DepthKeys(depths) == {depths[i].node : i \in 1..Len(depths)}
DepthOf(depths, node) == depths[CHOOSE i \in 1..Len(depths) : depths[i].node = node].depth

\* find_parallel_groups.calculate_depth.  The function has no cycle guard: a
\* node entered again while it is on the recursion stack recurses until
\* Python raises RecursionError (overflow).
RECURSIVE calculate_depth(_, _, _, _)
RECURSIVE max_dep_depth(_, _, _, _, _)
\* calculate_depth storing the largest depth of the dependencies as it is.
calculate_depth_no_increment(graph, node, st, stack) ==
  IF st.overflow THEN st
  ELSE IF node \in DepthKeys(st.depths) THEN [st EXCEPT !.val = DepthOf(st.depths, node)]
  ELSE IF node = INPUT_NODE_NAME \/ node \notin Keys(graph)
       THEN [st EXCEPT !.depths = Append(@, [node |-> node, depth |-> 0]), !.val = 0]
  ELSE IF DepsOf(graph, node) = <<>>
       THEN [st EXCEPT !.depths = Append(@, [node |-> node, depth |-> 0]), !.val = 0]
  ELSE IF node \in stack THEN [st EXCEPT !.overflow = TRUE]
  ELSE LET s1 == max_dep_depth(graph, DepsOf(graph, node), st, stack \cup {node}, 0)
       IN IF s1.overflow THEN s1
          ELSE [s1 EXCEPT !.depths = Append(@, [node |-> node, depth |-> s1.val])]

calculate_depth(graph, node, st, stack) ==
  IF st.overflow THEN st
  ELSE IF node \in DepthKeys(st.depths) THEN [st EXCEPT !.val = DepthOf(st.depths, node)]
  ELSE IF node = INPUT_NODE_NAME \/ node \notin Keys(graph)
       THEN [st EXCEPT !.depths = Append(@, [node |-> node, depth |-> 0]), !.val = 0]
  ELSE IF DepsOf(graph, node) = <<>>
       THEN [st EXCEPT !.depths = Append(@, [node |-> node, depth |-> 0]), !.val = 0]
  ELSE IF node \in stack THEN [st EXCEPT !.overflow = TRUE]
  ELSE LET s1 == max_dep_depth(graph, DepsOf(graph, node), st, stack \cup {node}, 0)
       IN IF s1.overflow THEN s1
          ELSE [s1 EXCEPT !.depths = Append(@, [node |-> node, depth |-> s1.val + 1]),
                          !.val = s1.val + 1]

\* max_dep_depth counting only the last dependency.
max_dep_depth_last(graph, dependencies, st, stack, best) ==
  IF st.overflow THEN st
  ELSE IF dependencies = <<>> THEN [st EXCEPT !.val = best]
  ELSE LET s1 == calculate_depth(graph, Head(dependencies), st, stack)
       IN max_dep_depth(graph, Tail(dependencies), s1, stack, s1.val)

\* max(calculate_depth(dep) for dep in dependencies), dependencies not empty.
max_dep_depth(graph, dependencies, st, stack, best) ==
  IF st.overflow THEN st
  ELSE IF dependencies = <<>> THEN [st EXCEPT !.val = best]
  ELSE LET s1 == calculate_depth(graph, Head(dependencies), st, stack)
       IN max_dep_depth(graph, Tail(dependencies), s1, stack,
                        IF s1.val > best THEN s1.val ELSE best)

\* for node in graph: calculate_depth(node)
RECURSIVE calculate_all_depths(_, _, _)
calculate_all_depths(graph, nodes, st) ==
  IF nodes = <<>> \/ st.overflow THEN st
  ELSE calculate_all_depths(graph, Tail(nodes), calculate_depth(graph, Head(nodes), st, {}))

\* depth_groups[depth]: the prompts of one depth, in the order of `depths`.
DepthGroup(graph, depths, d) ==
  LET InGroup(e) == e.depth = d /\ e.node # INPUT_NODE_NAME /\ e.node \in Keys(graph)
      es == SelectSeq(depths, InGroup)
  IN [i \in 1..Len(es) |-> es[i].node]

\* [depth_groups[depth] for depth in sorted(depth_groups.keys())]
RECURSIVE GroupsFrom(_, _, _, _)
GroupsFrom(graph, depths, d, top) ==
  IF d > top THEN <<>>
  ELSE (IF DepthGroup(graph, depths, d) = <<>> THEN <<>>
        ELSE <<DepthGroup(graph, depths, d)>>)
       \o GroupsFrom(graph, depths, d + 1, top)

\* find_parallel_groups leaving out the prompts of depth 0.
find_parallel_groups_from_one(graph) ==
  IF OUTPUT \notin Keys(graph) THEN [status |-> "ok", groups |-> <<>>]
  ELSE LET st == calculate_all_depths(graph, KeySeq(graph),
                   [depths |-> <<>>, overflow |-> FALSE, val |-> 0])
       IN IF st.overflow THEN [status |-> "RecursionError", groups |-> <<>>]
          ELSE [status |-> "ok",
                groups |-> GroupsFrom(graph, st.depths, 1, Len(graph))]

\* find_parallel_groups: the Depth Levels, or RecursionError.
find_parallel_groups(graph) ==
  IF OUTPUT \notin Keys(graph) THEN [status |-> "ok", groups |-> <<>>]
  ELSE LET st == calculate_all_depths(graph, KeySeq(graph),
                   [depths |-> <<>>, overflow |-> FALSE, val |-> 0])
       IN IF st.overflow THEN [status |-> "RecursionError", groups |-> <<>>]
          ELSE [status |-> "ok",
                groups |-> GroupsFrom(graph, st.depths, 0, Len(graph))]

\* ------------------------------------------------------------ prmptr.py
TemplateOf(defs, name) == defs[CHOOSE i \in 1..Len(defs) : defs[i].name = name].template

\* graph.get(name, [])
GraphGet(graph, name) == IF name \in Keys(graph) THEN DepsOf(graph, name) ELSE <<>>

\* prompt.replace("[[dep]]", value): every occurrence, left to right; the
\* inserted text is not scanned by this call.
replace(prompt, dep, value) ==
  Flatten([i \in 1..Len(prompt) |->
             IF prompt[i] = RefTok(dep) THEN value ELSE <<prompt[i]>>])

\* for dep in dependencies: (missing -> return None) prompt = prompt.replace(...)
RECURSIVE substitute_dependencies(_, _, _)
substitute_dependencies(prompt, dependencies, values) ==
  IF dependencies = <<>> THEN [missing |-> FALSE, dep |-> "", prompt |-> prompt]
  ELSE IF Head(dependencies) \notin DOMAIN values
       THEN [missing |-> TRUE, dep |-> Head(dependencies), prompt |-> prompt]
       ELSE substitute_dependencies(
              replace(prompt, Head(dependencies), values[Head(dependencies)]),
              Tail(dependencies), values)

StaticLogEntry(name, result) ==
  [name |-> name, kind |-> "static", prompt |-> <<>>, result |-> result]
DynamicLogEntry(name, prompt, result) ==
  [name |-> name, kind |-> "dynamic", prompt |-> prompt, result |-> result]

\* prepare_prompt without the static case: every fragment is sent.
prepare_prompt_no_static(name, defs, graph, values) ==
  LET sub == substitute_dependencies(TemplateOf(defs, name), GraphGet(graph, name), values)
  IN IF sub.missing
     THEN [kind |-> "missing", prompt |-> sub.prompt, result |-> <<>>, dep |-> sub.dep]
     ELSE [kind |-> "call", prompt |-> sub.prompt, result |-> <<>>, dep |-> ""]

\* The part of one fragment's processing that runs before the external call:
\* a static fragment is finished ("static"), a dependency without a value
\* aborts ("missing"), otherwise the substituted prompt is sent ("call").
prepare_prompt(name, defs, graph, values) ==
  LET template == TemplateOf(defs, name)
      dependencies == GraphGet(graph, name)
  IN IF dependencies = <<>>
     THEN [kind |-> "static", prompt |-> <<>>, result |-> template, dep |-> ""]
     ELSE LET sub == substitute_dependencies(template, dependencies, values)
          IN IF sub.missing
             THEN [kind |-> "missing", prompt |-> sub.prompt, result |-> <<>>, dep |-> sub.dep]
             ELSE [kind |-> "call", prompt |-> sub.prompt, result |-> <<>>, dep |-> ""]

\* call_llm: the text the external operation answers to a prompt.  The answer
\* quotes the prompt, so that a value records the text it was generated from.
LLMResponse(prompt) == <<"g">> \o prompt

\* resolved_values.get("output", "Error: Final output not generated.")
NotGenerated == <<"Error: Final output not generated.">>
\* FinalOutput falling back to the placeholder whatever the map holds.
FinalOutput_placeholder(values) == NotGenerated
FinalOutput(values) == IF OUTPUT \in DOMAIN values THEN values[OUTPUT] ELSE NotGenerated

\* execute_prompt_chain as a function of its arguments, for an external
\* operation that answers every prompt: what it returns, and the log entries
\* it joins.
RECURSIVE execute_prompt_chain_loop(_, _, _, _, _)
execute_prompt_chain_loop(order, defs, graph, values, log) ==
  IF order = <<>>
  THEN [results |-> "tuple", final_output |-> FinalOutput(values), log_entries |-> log,
        values |-> values]
  ELSE LET name == Head(order)
           p == prepare_prompt(name, defs, graph, values)
       IN CASE p.kind = "static" ->
                 execute_prompt_chain_loop(Tail(order), defs, graph,
                   (name :> p.result) @@ values,
                   Append(log, StaticLogEntry(name, p.result)))
            [] p.kind = "missing" ->
                 [results |-> "None", final_output |-> <<>>, log_entries |-> <<>>,
                  values |-> values]
            [] p.kind = "call" ->
                 execute_prompt_chain_loop(Tail(order), defs, graph,
                   (name :> LLMResponse(p.prompt)) @@ values,
                   Append(log, DynamicLogEntry(name, p.prompt, LLMResponse(p.prompt))))

execute_prompt_chain(order, defs, graph, initial_input) ==
  execute_prompt_chain_loop(order, defs, graph, INPUT_NODE_NAME :> initial_input, <<>>)

\* group_results.sort(key=lambda x: group.index(x[0]))
IndexIn(group, name) == CHOOSE i \in 1..Len(group) : group[i] = name
RECURSIVE SortByGroupIndex(_, _)

\* The results left in the order in which as_completed delivered them.
SortByGroupIndex_unsorted(group, results) == results

SortByGroupIndex(group, results) ==
  IF group = <<>> THEN <<>>
  ELSE LET IsHead(r) == r.name = Head(group)
       IN SelectSeq(results, IsHead) \o SortByGroupIndex(Tail(group), results)

\* ----------------------------------------------------------------- inputs
\* The Definition Tables of the model: definitions of any of the names, in
\* the order of NameOrder, with at most MaxTokens template tokens in all.
\* A name is left undefined (<<>>) or defined with one template (<<t>>).
TemplateChoices(budget) ==
  {<<>>} \cup {<<t>> : t \in SeqsUpTo(TemplateTokens, budget)}

Used(choice) == IF choice = <<>> THEN 0 ELSE Len(choice[1])

Definition(i, choice) ==
  IF choice = <<>> THEN <<>>
  ELSE <<[name |-> NameOrder[i], template |-> choice[1]]>>

\* The contents of the input file: plain text, or text that itself contains
\* the reference syntax.
InitialInputs == {<<"i">>, <<"i", "[[a]]">>}

\* ------------------------------------------------------------------ state
VARIABLES
  pc,               \* where main is
  definitions,      \* the Definition Table
  graph,            \* the Dependency Graph built from it
  execution_order,  \* result of resolve_execution_order
  parallel_groups,  \* result of find_parallel_groups
  mode,             \* "sequential" (--no-parallel) or "parallel"
  max_workers,      \* --max-workers
  resolved_values,  \* the Resolved Value Map
  log_entries,      \* the step log
  pos,              \* index of the current fragment / level
  inflight,         \* main thread's own external call: <<>> or <<[name, prompt]>>
  workers,          \* futures of the current level: name -> [st, prompt, result];
                    \* st "queued": process_single_prompt has not run yet
  taken,            \* queued work items a pool thread has taken from the queue
  group_results,    \* results collected from as_completed
  aborting,         \* a collected result was None: return None is pending
  llm_calls,        \* number of external calls made per fragment
  errors,           \* conditions reported: {[kind, node]}
  results,          \* what the execution function returned: "", "None", "tuple"
  final_output,     \* the final value returned
  files_written     \* the caller wrote the output and log files

vars == <<pc, definitions, graph, execution_order, parallel_groups, mode, max_workers,
          resolved_values, log_entries, pos, inflight, workers, taken, group_results,
          aborting, llm_calls, errors, results, final_output, files_written>>

NoValues == [n \in {} |-> <<>>]

Init ==
  /\ pc = "resolve"
  /\ \E c1 \in TemplateChoices(MaxTokens) :
     \E c2 \in TemplateChoices(MaxTokens - Used(c1)) :
     \E c3 \in TemplateChoices(MaxTokens - Used(c1) - Used(c2)) :
     \E c4 \in TemplateChoices(MaxTokens - Used(c1) - Used(c2) - Used(c3)) :
       definitions = Definition(1, c1) \o Definition(2, c2)
                     \o Definition(3, c3) \o Definition(4, c4)
  /\ graph = build_dependency_graph(definitions)
  /\ execution_order = <<>>
  /\ parallel_groups = <<>>
  /\ mode = ""
  /\ max_workers = 0
  /\ resolved_values = NoValues
  /\ log_entries = <<>>
  /\ pos = 0
  /\ inflight = <<>>
  /\ workers = NoValues
  /\ taken = {}
  /\ group_results = <<>>
  /\ aborting = FALSE
  /\ llm_calls = [n \in Names |-> 0]
  /\ errors = {}
  /\ results = ""
  /\ final_output = <<>>
  /\ files_written = FALSE

\* ------------------------------------------------------------------- main
\* main, lines 309-314: resolve_execution_order; a ValueError ends the run
\* with sys.exit(1).
ResolveOrder ==
  /\ pc = "resolve"
  /\ LET r == resolve_execution_order(graph)
     IN IF r.status = "ok"
        THEN /\ execution_order' = r.order
             /\ pc' = "execute"
             /\ errors' = errors
        ELSE /\ execution_order' = execution_order
             /\ pc' = "exit"
             /\ errors' = errors \cup {[kind |-> r.status, node |-> r.node]}
  /\ UNCHANGED <<taken, definitions, graph, parallel_groups, mode, max_workers, resolved_values,
                 log_entries, pos, inflight, workers, group_results, aborting,
                 llm_calls, results, final_output, files_written>>

\* StartSequential entering the loop at the second name of the order.
StartSequential_skip_first ==
  /\ pc = "execute"
  /\ \E initial_input \in InitialInputs :
       resolved_values' = (INPUT_NODE_NAME :> initial_input)
  /\ mode' = "sequential"
  /\ pos' = 2
  /\ pc' = "sequential"
  /\ UNCHANGED <<taken, definitions, graph, execution_order, parallel_groups, max_workers,
                 log_entries, inflight, workers, group_results, aborting,
                 llm_calls, errors, results, final_output, files_written>>

\* main, lines 317-321 (--no-parallel) and execute_prompt_chain, lines 192-193.
StartSequential ==
  /\ pc = "execute"
  /\ \E initial_input \in InitialInputs :
       resolved_values' = (INPUT_NODE_NAME :> initial_input)
  /\ mode' = "sequential"
  /\ pos' = 1
  /\ pc' = "sequential"
  /\ UNCHANGED <<taken, definitions, graph, execution_order, parallel_groups, max_workers,
                 log_entries, inflight, workers, group_results, aborting,
                 llm_calls, errors, results, final_output, files_written>>

\* main, lines 322-329: find_parallel_groups, then execute_prompt_chain_parallel,
\* lines 80-87.  A RecursionError of find_parallel_groups is caught nowhere.
StartParallel ==
  /\ pc = "execute"
  /\ mode' = "parallel"
  /\ LET g == find_parallel_groups(graph)
     IN IF g.status = "ok"
        THEN /\ parallel_groups' = g.groups
             /\ \E initial_input \in InitialInputs :
                  resolved_values' = (INPUT_NODE_NAME :> initial_input)
             /\ \E w \in 1..MaxWorkers : max_workers' = w
             /\ pos' = 1
             /\ pc' = "parallel"
             /\ errors' = errors
        ELSE /\ pc' = "crash"
             /\ errors' = errors \cup {[kind |-> g.status, node |-> ""]}
             /\ UNCHANGED <<parallel_groups, resolved_values, max_workers, pos>>
  /\ UNCHANGED <<taken, definitions, graph, execution_order, log_entries, inflight, workers,
                 group_results, aborting, llm_calls, results, final_output,
                 files_written>>

\* ----------------------------------------------- execute_prompt_chain
\* One iteration of the loop of lines 195-219, up to the external call.
SeqStep ==
  /\ pc = "sequential" /\ inflight = <<>> /\ pos <= Len(execution_order)
  /\ LET name == execution_order[pos]
         p == prepare_prompt(name, definitions, graph, resolved_values)
     IN CASE p.kind = "static" ->
               /\ resolved_values' = (name :> p.result) @@ resolved_values
               /\ log_entries' = Append(log_entries, StaticLogEntry(name, p.result))
               /\ pos' = pos + 1
               /\ UNCHANGED <<pc, inflight, llm_calls, errors, results>>
          [] p.kind = "missing" ->
               /\ errors' = errors \cup {[kind |-> "MissingDependency", node |-> name]}
               /\ results' = "None"
               /\ pc' = "exit"
               /\ UNCHANGED <<resolved_values, log_entries, pos, inflight, llm_calls>>
          [] p.kind = "call" ->
               /\ inflight' = <<[name |-> name, prompt |-> p.prompt]>>
               /\ llm_calls' = [llm_calls EXCEPT ![name] = @ + 1]
               /\ UNCHANGED <<pc, resolved_values, log_entries, pos, errors, results>>
  /\ UNCHANGED <<taken, definitions, graph, execution_order, parallel_groups, mode, max_workers,
                 workers, group_results, aborting, final_output, files_written>>

\* call_llm returns: lines 221-231.
SeqLLMReturn ==
  /\ pc = "sequential" /\ inflight # <<>>
  /\ LET name == inflight[1].name
         prompt == inflight[1].prompt
     IN \E ok \in BOOLEAN :
          IF ok
          THEN /\ resolved_values' = (name :> LLMResponse(prompt)) @@ resolved_values
               /\ log_entries' = Append(log_entries,
                                   DynamicLogEntry(name, prompt, LLMResponse(prompt)))
               /\ pos' = pos + 1
               /\ UNCHANGED <<pc, errors, results>>
          ELSE /\ errors' = errors \cup {[kind |-> "GenerationFailed", node |-> name]}
               /\ results' = "None"
               /\ pc' = "exit"
               /\ UNCHANGED <<resolved_values, log_entries, pos>>
  /\ inflight' = <<>>
  /\ UNCHANGED <<taken, definitions, graph, execution_order, parallel_groups, mode, max_workers,
                 workers, group_results, aborting, llm_calls, final_output,
                 files_written>>

\* Lines 233-236: the loop is over, the final value and the log are returned.
SeqFinish ==
  /\ pc = "sequential" /\ inflight = <<>> /\ pos > Len(execution_order)
  /\ final_output' = FinalOutput(resolved_values)
  /\ results' = "tuple"
  /\ pc' = "write"
  /\ UNCHANGED <<taken, definitions, graph, execution_order, parallel_groups, mode, max_workers,
                 resolved_values, log_entries, pos, inflight, workers, group_results,
                 aborting, llm_calls, errors, files_written>>

\* -------------------------------------- execute_prompt_chain_parallel
CurrentGroup == parallel_groups[pos]

GroupPending ==
  /\ pc = "parallel" /\ pos <= Len(parallel_groups)

\* Lines 128-135 with process_single_prompt (lines 89-112) run by the main
\* thread, up to the external call.
ParSingleStep ==
  /\ GroupPending /\ Len(CurrentGroup) = 1 /\ inflight = <<>>
  /\ LET name == CurrentGroup[1]
         p == prepare_prompt(name, definitions, graph, resolved_values)
     IN CASE p.kind = "static" ->
               /\ resolved_values' = (name :> p.result) @@ resolved_values
               /\ log_entries' = Append(log_entries, StaticLogEntry(name, p.result))
               /\ pos' = pos + 1
               /\ UNCHANGED <<pc, inflight, llm_calls, errors, results>>
          [] p.kind = "missing" ->
               /\ errors' = errors \cup {[kind |-> "MissingDependency", node |-> name]}
               /\ results' = "None"
               /\ pc' = "exit"
               /\ UNCHANGED <<resolved_values, log_entries, pos, inflight, llm_calls>>
          [] p.kind = "call" ->
               /\ inflight' = <<[name |-> name, prompt |-> p.prompt]>>
               /\ llm_calls' = [llm_calls EXCEPT ![name] = @ + 1]
               /\ UNCHANGED <<pc, resolved_values, log_entries, pos, errors, results>>
  /\ UNCHANGED <<taken, definitions, graph, execution_order, parallel_groups, mode, max_workers,
                 workers, group_results, aborting, final_output, files_written>>

\* call_llm returns to the main thread: lines 114-124 and 130-135.
ParSingleLLMReturn ==
  /\ pc = "parallel" /\ inflight # <<>>
  /\ LET name == inflight[1].name
         prompt == inflight[1].prompt
     IN \E ok \in BOOLEAN :
          IF ok
          THEN /\ resolved_values' = (name :> LLMResponse(prompt)) @@ resolved_values
               /\ log_entries' = Append(log_entries,
                                   DynamicLogEntry(name, prompt, LLMResponse(prompt)))
               /\ pos' = pos + 1
               /\ UNCHANGED <<pc, errors, results>>
          ELSE /\ errors' = errors \cup {[kind |-> "GenerationFailed", node |-> name]}
               /\ results' = "None"
               /\ pc' = "exit"
               /\ UNCHANGED <<resolved_values, log_entries, pos>>
  /\ inflight' = <<>>
  /\ UNCHANGED <<taken, definitions, graph, execution_order, parallel_groups, mode, max_workers,
                 workers, group_results, aborting, llm_calls, final_output,
                 files_written>>

\* Lines 141-147: executor.submit for the next member of the group, in the
\* order of the group; the pool threads run while the main thread submits.
NextToSubmit == CurrentGroup[CHOOSE i \in 1..Len(CurrentGroup) :
                               /\ CurrentGroup[i] \notin DOMAIN workers
                               /\ \A j \in 1..(i - 1) : CurrentGroup[j] \in DOMAIN workers]
ParSubmit ==
  /\ GroupPending /\ Len(CurrentGroup) > 1
  /\ Range(CurrentGroup) \ DOMAIN workers # {}
  /\ workers' = (NextToSubmit :>
                   [st |-> "queued", kind |-> "", prompt |-> <<>>, result |-> <<>>])
                @@ workers
  /\ UNCHANGED <<taken, pc, definitions, graph, execution_order, parallel_groups, mode, max_workers,
                 resolved_values, log_entries, pos, inflight, group_results, aborting,
                 llm_calls, errors, results, final_output, files_written>>

\* min(max_workers, len(group)) threads serve the pool's FIFO work queue.
workers_for_group == IF max_workers < Len(CurrentGroup) THEN max_workers ELSE Len(CurrentGroup)
\* Work items a pool thread holds: taken from the queue, or inside call_llm.
Calling == {n \in DOMAIN workers : workers[n].st = "calling"}
Running == taken \cup Calling
\* The pool's FIFO work queue, in the order of the submits.
Queued == {n \in DOMAIN workers : workers[n].st = "queued"} \ taken
NextQueued == CurrentGroup[CHOOSE i \in 1..Len(CurrentGroup) :
                             /\ CurrentGroup[i] \in Queued
                             /\ \A j \in 1..(i - 1) : CurrentGroup[j] \notin Queued]
\* WorkerTake with a pool thread for every work item.
WorkerTake_unbounded ==
  /\ pc = "parallel" /\ Queued # {}
  /\ taken' = taken \cup {NextQueued}
  /\ UNCHANGED <<pc, definitions, graph, execution_order, parallel_groups, mode, max_workers,
                 resolved_values, log_entries, pos, inflight, workers, group_results,
                 aborting, llm_calls, errors, results, final_output, files_written>>

\* A pool thread that holds no work item takes the oldest one of the pool's
\* FIFO work queue; the pool of line 142 has workers_for_group threads.
WorkerTake ==
  /\ pc = "parallel" /\ Queued # {}
  /\ Cardinality(Running) < workers_for_group
  /\ taken' = taken \cup {NextQueued}
  /\ UNCHANGED <<pc, definitions, graph, execution_order, parallel_groups, mode, max_workers,
                 resolved_values, log_entries, pos, inflight, workers, group_results,
                 aborting, llm_calls, errors, results, final_output, files_written>>

\* A pool thread runs process_single_prompt (lines 89-112) for the work item
\* it holds, up to the external call; the threads that hold an item do so in
\* any order.
WorkerStart ==
  /\ pc = "parallel"
  /\ \E name \in taken :
       /\ taken' = taken \ {name}
       /\ LET p == prepare_prompt(name, definitions, graph, resolved_values)
          IN CASE p.kind = "static" ->
                    /\ workers' = [workers EXCEPT ![name] =
                         [st |-> "done", kind |-> "static", prompt |-> <<>>,
                          result |-> p.result]]
                    /\ UNCHANGED <<llm_calls, errors>>
               [] p.kind = "missing" ->
                    /\ workers' = [workers EXCEPT ![name] =
                         [st |-> "done", kind |-> "None", prompt |-> <<>>,
                          result |-> <<>>]]
                    /\ errors' = errors \cup {[kind |-> "MissingDependency", node |-> name]}
                    /\ UNCHANGED llm_calls
               [] p.kind = "call" ->
                    /\ workers' = [workers EXCEPT ![name] =
                         [st |-> "calling", kind |-> "dynamic", prompt |-> p.prompt,
                          result |-> <<>>]]
                    /\ llm_calls' = [llm_calls EXCEPT ![name] = @ + 1]
                    /\ UNCHANGED errors
  /\ UNCHANGED <<pc, definitions, graph, execution_order, parallel_groups, mode, max_workers,
                 resolved_values, log_entries, pos, inflight, group_results, aborting,
                 results, final_output, files_written>>

\* WorkerLLMReturn putting a failed work item back in the queue.
WorkerLLMReturn_retry ==
  /\ pc = "parallel"
  /\ \E name \in Calling : \E ok \in BOOLEAN :
       IF ok
       THEN /\ workers' = [workers EXCEPT ![name].st = "done",
                                          ![name].result = LLMResponse(workers[name].prompt)]
            /\ errors' = errors
       ELSE /\ workers' = [workers EXCEPT ![name].st = "queued"]
            /\ errors' = errors
  /\ UNCHANGED <<taken, pc, definitions, graph, execution_order, parallel_groups, mode, max_workers,
                 resolved_values, log_entries, pos, inflight, group_results, aborting,
                 llm_calls, results, final_output, files_written>>

\* call_llm returns to a pool thread: lines 114-124; the future is done.
WorkerLLMReturn ==
  /\ pc = "parallel"
  /\ \E name \in Calling : \E ok \in BOOLEAN :
       IF ok
       THEN /\ workers' = [workers EXCEPT ![name].st = "done",
                                          ![name].result = LLMResponse(workers[name].prompt)]
            /\ errors' = errors
       ELSE /\ workers' = [workers EXCEPT ![name].st = "done", ![name].kind = "None"]
            /\ errors' = errors \cup {[kind |-> "GenerationFailed", node |-> name]}
  /\ UNCHANGED <<taken, pc, definitions, graph, execution_order, parallel_groups, mode, max_workers,
                 resolved_values, log_entries, pos, inflight, group_results, aborting,
                 llm_calls, results, final_output, files_written>>

\* Lines 150-155, after the submits of lines 144-147: as_completed hands the
\* main thread a finished future.
Collect ==
  /\ pc = "parallel" /\ ~aborting
  /\ pos <= Len(parallel_groups) /\ DOMAIN workers = Range(CurrentGroup)
  /\ \E name \in DOMAIN workers :
       /\ workers[name].st = "done"
       /\ workers' = [workers EXCEPT ![name].st = "collected"]
       /\ IF workers[name].kind = "None"
          THEN /\ aborting' = TRUE
               /\ group_results' = group_results
          ELSE /\ aborting' = FALSE
               /\ group_results' = Append(group_results,
                    [name |-> name, value |-> workers[name].result,
                     log_entry |-> IF workers[name].kind = "static"
                                   THEN StaticLogEntry(name, workers[name].result)
                                   ELSE DynamicLogEntry(name, workers[name].prompt,
                                                        workers[name].result)])
  /\ UNCHANGED <<taken, pc, definitions, graph, execution_order, parallel_groups, mode, max_workers,
                 resolved_values, log_entries, pos, inflight, llm_calls, errors,
                 results, final_output, files_written>>

\* ParAbort writing the results collected so far before it returns.
ParAbort_keep_results ==
  /\ pc = "parallel" /\ aborting
  /\ \A n \in DOMAIN workers : workers[n].st \in {"done", "collected"}
  /\ resolved_values' =
       [n \in {group_results[i].name : i \in 1..Len(group_results)} |->
          group_results[CHOOSE i \in 1..Len(group_results) :
                          group_results[i].name = n].value] @@ resolved_values
  /\ log_entries' = log_entries \o
       [i \in 1..Len(group_results) |-> group_results[i].log_entry]
  /\ results' = "None"
  /\ pc' = "exit"
  /\ UNCHANGED <<taken, definitions, graph, execution_order, parallel_groups, mode, max_workers,
                 pos, inflight, workers, group_results, aborting, llm_calls, errors,
                 final_output, files_written>>

\* ParAbort returning without waiting for the pool.
ParAbort_no_wait ==
  /\ pc = "parallel" /\ aborting
  /\ results' = "None"
  /\ pc' = "exit"
  /\ UNCHANGED <<taken, definitions, graph, execution_order, parallel_groups, mode, max_workers,
                 resolved_values, log_entries, pos, inflight, workers, group_results,
                 aborting, llm_calls, errors, final_output, files_written>>

\* Line 154 inside the with block of line 142: return None leaves the block,
\* whose exit waits for every submitted work item to finish.
ParAbort ==
  /\ pc = "parallel" /\ aborting
  /\ \A n \in DOMAIN workers : workers[n].st \in {"done", "collected"}
  /\ results' = "None"
  /\ pc' = "exit"
  /\ UNCHANGED <<taken, definitions, graph, execution_order, parallel_groups, mode, max_workers,
                 resolved_values, log_entries, pos, inflight, workers, group_results,
                 aborting, llm_calls, errors, final_output, files_written>>

RECURSIVE UpdateValues(_, _)

\* UpdateValues writing only the first result of the group.
UpdateValues_first_only(values, rs) ==
  IF rs = <<>> THEN values
  ELSE (Head(rs).name :> Head(rs).value) @@ values

\* for name, value, log_entry in group_results: resolved_values[name] = value
UpdateValues(values, rs) ==
  IF rs = <<>> THEN values
  ELSE UpdateValues((Head(rs).name :> Head(rs).value) @@ values, Tail(rs))

\* ParCommit not waiting for the futures that are still running.
ParCommit_early ==
  /\ GroupPending /\ ~aborting /\ DOMAIN workers # {}
  /\ Len(group_results) >= 1
  /\ LET sorted == SortByGroupIndex(CurrentGroup, group_results)
     IN /\ resolved_values' = UpdateValues(resolved_values, sorted)
        /\ log_entries' = log_entries \o [i \in 1..Len(sorted) |-> sorted[i].log_entry]
  /\ workers' = NoValues
  /\ group_results' = <<>>
  /\ pos' = pos + 1
  /\ UNCHANGED <<taken, pc, definitions, graph, execution_order, parallel_groups, mode, max_workers,
                 inflight, aborting, llm_calls, errors, results, final_output,
                 files_written>>

\* Lines 157-163: every future of the group returned a result; the results
\* are sorted and written to the map and the log.
ParCommit ==
  /\ GroupPending /\ ~aborting /\ DOMAIN workers # {}
  /\ Len(group_results) = Len(CurrentGroup)
  /\ LET sorted == SortByGroupIndex(CurrentGroup, group_results)
     IN /\ resolved_values' = UpdateValues(resolved_values, sorted)
        /\ log_entries' = log_entries \o [i \in 1..Len(sorted) |-> sorted[i].log_entry]
  /\ workers' = NoValues
  /\ group_results' = <<>>
  /\ pos' = pos + 1
  /\ UNCHANGED <<taken, pc, definitions, graph, execution_order, parallel_groups, mode, max_workers,
                 inflight, aborting, llm_calls, errors, results, final_output,
                 files_written>>

\* Lines 165-168.
ParFinish ==
  /\ pc = "parallel" /\ inflight = <<>> /\ pos > Len(parallel_groups)
  /\ final_output' = FinalOutput(resolved_values)
  /\ results' = "tuple"
  /\ pc' = "write"
  /\ UNCHANGED <<taken, definitions, graph, execution_order, parallel_groups, mode, max_workers,
                 resolved_values, log_entries, pos, inflight, workers, group_results,
                 aborting, llm_calls, errors, files_written>>

\* main, lines 335-344: the log and the final value are written to files.
WriteFiles ==
  /\ pc = "write"
  /\ files_written' = TRUE
  /\ pc' = "done"
  /\ UNCHANGED <<taken, definitions, graph, execution_order, parallel_groups, mode, max_workers,
                 resolved_values, log_entries, pos, inflight, workers, group_results,
                 aborting, llm_calls, errors, results, final_output>>

Next ==
  \/ ResolveOrder
  \/ StartSequential
  \/ StartParallel
  \/ SeqStep
  \/ SeqLLMReturn
  \/ SeqFinish
  \/ ParSingleStep
  \/ ParSingleLLMReturn
  \/ ParSubmit
  \/ WorkerTake
  \/ WorkerStart
  \/ WorkerLLMReturn
  \/ Collect
  \/ ParAbort
  \/ ParCommit
  \/ ParFinish
  \/ WriteFiles

Spec == Init /\ [][Next]_vars

\* The runs without --no-parallel: main always takes the branch of lines
\* 322-329.
NextParallel ==
  \/ ResolveOrder
  \/ StartParallel
  \/ ParSingleStep
  \/ ParSingleLLMReturn
  \/ ParSubmit
  \/ WorkerTake
  \/ WorkerStart
  \/ WorkerLLMReturn
  \/ Collect
  \/ ParAbort
  \/ ParCommit
  \/ ParFinish
  \/ WriteFiles

SpecParallel == Init /\ [][NextParallel]_vars

\* The parallel runs in which the program makes progress: the main thread goes
\* on submitting the members of a level, a pool thread that can take or
\* process a work item does so, and call_llm returns (a response, or None
\* after an exception).
SpecParallelFair ==
  /\ SpecParallel
  /\ WF_vars(ParSubmit)
  /\ WF_vars(WorkerTake)
  /\ WF_vars(WorkerStart)
  /\ WF_vars(WorkerLLMReturn)

\* The runs with --no-parallel: main always takes the branch of lines
\* 317-321.
NextSequential ==
  \/ ResolveOrder
  \/ StartSequential
  \/ SeqStep
  \/ SeqLLMReturn
  \/ SeqFinish
  \/ WriteFiles

SpecSequential == Init /\ [][NextSequential]_vars

\* ------------------------------------------------- the execution functions
\* execute_prompt_chain and execute_prompt_chain_parallel called with an
\* execution order or with groups of the caller's choosing: any fragments of
\* the Definition Table, each at most once, in any order.  The functions run
\* step by step as they do under main.
RECURSIVE Arrangements(_, _)
Arrangements(S, n) ==
  IF n = 0 THEN {<<>>}
  ELSE {<<>>} \cup UNION {{<<x>> \o o : o \in Arrangements(S \ {x}, n - 1)} : x \in S}

\* The groups an order is cut into: a group ends at each index of `ends` and
\* at the end of the order.
RECURSIVE GroupsOfOrder(_, _, _)
GroupsOfOrder(order, ends, i) ==
  IF i > Len(order) THEN <<>>
  ELSE LET last == CHOOSE j \in i..Len(order) :
                     /\ (j \in ends \/ j = Len(order))
                     /\ \A k \in i..(j - 1) : k \notin ends
       IN <<SubSeq(order, i, last)>> \o GroupsOfOrder(order, ends, last + 1)

InitEngine ==
  /\ pc = "engine"
  /\ \E c1 \in TemplateChoices(MaxTokens) :
     \E c2 \in TemplateChoices(MaxTokens - Used(c1)) :
     \E c3 \in TemplateChoices(MaxTokens - Used(c1) - Used(c2)) :
     \E c4 \in TemplateChoices(MaxTokens - Used(c1) - Used(c2) - Used(c3)) :
       definitions = Definition(1, c1) \o Definition(2, c2)
                     \o Definition(3, c3) \o Definition(4, c4)
  /\ graph = build_dependency_graph(definitions)
  /\ execution_order = <<>>
  /\ parallel_groups = <<>>
  /\ mode = ""
  /\ max_workers = 0
  /\ resolved_values = NoValues
  /\ log_entries = <<>>
  /\ pos = 0
  /\ inflight = <<>>
  /\ workers = NoValues
  /\ taken = {}
  /\ group_results = <<>>
  /\ aborting = FALSE
  /\ llm_calls = [n \in Names |-> 0]
  /\ errors = {}
  /\ results = ""
  /\ final_output = <<>>
  /\ files_written = FALSE

\* execute_prompt_chain(client, execution_order, definitions, graph,
\* initial_input) is entered: lines 192-193.
CallSequential ==
  /\ pc = "engine"
  /\ \E order \in Arrangements(Keys(definitions), MaxGiven) : execution_order' = order
  /\ \E initial_input \in InitialInputs :
       resolved_values' = (INPUT_NODE_NAME :> initial_input)
  /\ mode' = "sequential"
  /\ pos' = 1
  /\ pc' = "sequential"
  /\ UNCHANGED <<taken, definitions, graph, parallel_groups, max_workers, log_entries,
                 inflight, workers, group_results, aborting, llm_calls, errors,
                 results, final_output, files_written>>

\* execute_prompt_chain_parallel(client, parallel_groups, definitions, graph,
\* initial_input, max_workers) is entered: lines 80-87.
CallParallel ==
  /\ pc = "engine"
  /\ \E order \in Arrangements(Keys(definitions), MaxGiven) :
     \E ends \in SUBSET (1..(Len(order) - 1)) :
       parallel_groups' = GroupsOfOrder(order, ends, 1)
  /\ \E initial_input \in InitialInputs :
       resolved_values' = (INPUT_NODE_NAME :> initial_input)
  /\ \E w \in 1..MaxWorkers : max_workers' = w
  /\ mode' = "parallel"
  /\ pos' = 1
  /\ pc' = "parallel"
  /\ UNCHANGED <<taken, definitions, graph, execution_order, log_entries, inflight,
                 workers, group_results, aborting, llm_calls, errors, results,
                 final_output, files_written>>

NextEngine ==
  \/ CallSequential
  \/ CallParallel
  \/ SeqStep
  \/ SeqLLMReturn
  \/ SeqFinish
  \/ ParSingleStep
  \/ ParSingleLLMReturn
  \/ ParSubmit
  \/ WorkerTake
  \/ WorkerStart
  \/ WorkerLLMReturn
  \/ Collect
  \/ ParAbort
  \/ ParCommit
  \/ ParFinish
  \/ WriteFiles

SpecEngine == InitEngine /\ [][NextEngine]_vars

\* ------------------------------------------------------------- properties
\* Dependency relation of the Dependency Graph, for stating the properties.
KeyDeps(n) == UNION {Range(graph[i].deps) : i \in {j \in 1..Len(graph) : graph[j].name = n}}

RECURSIVE ReachSet(_)
ReachSet(S) ==
  LET T == S \cup UNION {KeyDeps(n) : n \in S}
  IN IF T = S THEN S ELSE ReachSet(T)

\* Names n depends on, directly or transitively.
DependsOn(n) == ReachSet(KeyDeps(n))
OnCycle(n) == n \in DependsOn(n)
CycleFromOutput ==
  /\ OUTPUT \in Keys(graph)
  /\ \E n \in ReachSet({OUTPUT}) : OnCycle(n)

NoExternalCall == \A n \in Names : llm_calls[n] = 0

ResolveFailed == \E e \in errors : e.kind \in {"MissingOutputNode", "CyclicDependency"}
ResolveSucceeded == pc # "resolve" /\ ~ResolveFailed

\* C1: when resolve_execution_order succeeds, the Execution Order holds only
\* graph keys, each at most once, ends with "output", and every dependency of
\* a member that is a graph key stands strictly before it; names that are
\* referenced without being graph keys are not in it.
C1_OrderRespectsDependencies ==
  ResolveSucceeded =>
    LET o == execution_order
    IN /\ Range(o) \subseteq Keys(graph)
       /\ \A i, j \in 1..Len(o) : o[i] = o[j] => i = j
       /\ Len(o) >= 1 /\ o[Len(o)] = OUTPUT
       /\ \A i \in 1..Len(o) :
            \A d \in KeyDeps(o[i]) \cap Keys(graph) :
              \E j \in 1..(i - 1) : o[j] = d

\* Reached: an order of three fragments, one of which references a name that
\* is no graph key.
C1_Witness ==
  /\ pc = "execute"
  /\ Len(execution_order) = 3
  /\ \E i \in 1..3 : KeyDeps(execution_order[i]) \ Keys(graph) # {}

ChainCycleExample ==
  definitions = <<[name |-> "output", template |-> <<"[[a]]">>],
                  [name |-> "a", template |-> <<"[[b]]">>],
                  [name |-> "b", template |-> <<"[[a]]">>]>>

\* C2: when a dependency cycle (a self-reference included) can be reached from
\* "output", the run ends at the resolver with CyclicDependency naming a node
\* of such a cycle (node a for a = [[b]], b = [[a]], output = [[a]]), neither
\* execution mode is entered and no external call is made.
C2_CycleStopsBeforeAnyCall ==
  (pc # "resolve" /\ CycleFromOutput) =>
    /\ pc = "exit" /\ mode = "" /\ results = ""
    /\ NoExternalCall
    /\ \E n \in ReachSet({OUTPUT}) :
         /\ OnCycle(n)
         /\ errors = {[kind |-> "CyclicDependency", node |-> n]}
    /\ ChainCycleExample => errors = {[kind |-> "CyclicDependency", node |-> "a"]}

C2_Witness ==
  /\ pc = "exit"
  /\ ChainCycleExample
  /\ errors = {[kind |-> "CyclicDependency", node |-> "a"]}

\* C3: without a definition of "output" the run ends at the resolver with
\* MissingOutputNode: no external call is made, no fragment is resolved and
\* nothing is written.
C3_MissingOutputStopsRun ==
  (pc # "resolve" /\ OUTPUT \notin Keys(definitions)) =>
    /\ pc = "exit" /\ mode = "" /\ results = ""
    /\ errors = {[kind |-> "MissingOutputNode", node |-> OUTPUT]}
    /\ NoExternalCall
    /\ resolved_values = NoValues
    /\ log_entries = <<>>
    /\ ~files_written

C3_Witness ==
  /\ pc = "exit"
  /\ OUTPUT \notin Keys(definitions)
  /\ Len(definitions) >= 2
  /\ \E i \in 1..Len(definitions) : find_dependencies(definitions[i].template) # <<>>

Count(seq, e) == Cardinality({i \in 1..Len(seq) : seq[i] = e})
SameMultiset(s1, s2) ==
  /\ Len(s1) = Len(s2)
  /\ \A e \in Range(s1) \cup Range(s2) : Count(s1, e) = Count(s2, e)

StaticChainExample ==
  definitions = <<[name |-> "output", template |-> <<"[[b]]">>],
                  [name |-> "a", template |-> <<"t">>],
                  [name |-> "b", template |-> <<"[[a]]">>]>>

\* C4: a parallel run whose external calls were all answered returns what the
\* sequential run over the Execution Order returns for the same table, the
\* same input and the same answers: the same final value and the same
\* multiset of log entries; and the chain output <- b <- a with a static has
\* the Depth Levels [[a], [b], [output]].  Stated for the tables that keep the
\* reserved name for the initial input.
C4_ParallelEqualsSequential ==
  /\ (mode = "parallel" /\ results = "tuple" /\ INPUT_NODE_NAME \notin Keys(graph)) =>
       LET seq == execute_prompt_chain(execution_order, definitions, graph,
                                       resolved_values[INPUT_NODE_NAME])
       IN /\ seq.results = "tuple"
          /\ seq.final_output = final_output
          /\ SameMultiset(seq.log_entries, log_entries)
  /\ (mode = "parallel" /\ pc = "parallel" /\ StaticChainExample) =>
       parallel_groups = <<<<"a">>, <<"b">>, <<"output">>>>

\* The text the claim expects to be sent for a fragment: its template with
\* each reference replaced by the value of the name it references, the values
\* themselves left as they are.
ExpectedPrompt(name) ==
  LET template == TemplateOf(definitions, name)
  IN Flatten([i \in 1..Len(template) |->
                IF template[i] \in RefTokens
                THEN resolved_values[NameOfRef(template[i])]
                ELSE <<template[i]>>])

\* C5: the text sent for a dynamic fragment is its template with every
\* occurrence of every reference replaced by the value of the referenced
\* name, and reference syntax inside a value is sent as it is.
C5_ValuesAreNotRescanned ==
  /\ inflight # <<>> => inflight[1].prompt = ExpectedPrompt(inflight[1].name)
  /\ \A n \in Calling : workers[n].prompt = ExpectedPrompt(n)

StaticNames == {graph[i].name : i \in {j \in 1..Len(graph) : graph[j].deps = <<>>}}
Logged(n) == \E i \in 1..Len(log_entries) : log_entries[i].name = n

\* The condition of C6 on one state of a run.
StaticUsedVerbatim ==
  \A n \in StaticNames :
    LET template == TemplateOf(definitions, n)
    IN /\ llm_calls[n] = 0
       /\ \A i \in 1..Len(log_entries) :
            log_entries[i].name = n => log_entries[i] = StaticLogEntry(n, template)
       /\ (n \in DOMAIN resolved_values /\ (n # INPUT_NODE_NAME \/ Logged(n)))
            => resolved_values[n] = template
       /\ (n \in DOMAIN workers /\ workers[n].st \in {"done", "collected"})
            => (workers[n].kind = "static" /\ workers[n].result = template)

\* C6: in both modes a fragment without dependencies is never sent to the
\* external operation; when it is processed its value is its template, and
\* its log entry is the static one with that text.
C6_StaticUsedVerbatim == []StaticUsedVerbatim

\* Reached: a finished parallel run that processed a static fragment with a
\* non-empty template and a dynamic one.
C6_Witness ==
  /\ pc = "done" /\ mode = "parallel"
  /\ \E n \in StaticNames : Logged(n) /\ TemplateOf(definitions, n) # <<>>
  /\ \E i \in 1..Len(log_entries) : log_entries[i].kind = "dynamic"

Failed(f) == [kind |-> "GenerationFailed", node |-> f] \in errors
Started(n) ==
  \/ llm_calls[n] > 0
  \/ Logged(n)
  \/ (n \in DOMAIN workers /\ workers[n].st # "queued")

\* C7: once the external operation has failed for a fragment, the run cannot
\* end in success and no file is written; the map and the log never get an
\* entry written for that fragment; and no other fragment that depends on it,
\* directly or transitively, is ever started.
C7_FailureStopsDependents ==
  \A f \in Keys(graph) :
    Failed(f) =>
      /\ results # "tuple" /\ pc \notin {"write", "done"} /\ ~files_written
      /\ ~Logged(f)
      /\ f \in DOMAIN resolved_values =>
           (f = INPUT_NODE_NAME /\ resolved_values[f] \in InitialInputs)
      /\ \A d \in Keys(graph) \ {f} : f \in DependsOn(d) => ~Started(d)

LevelOf(n) == CHOOSE l \in 1..Len(parallel_groups) : n \in Range(parallel_groups[l])
InLevels(n) == \E l \in 1..Len(parallel_groups) : n \in Range(parallel_groups[l])

\* C8: in parallel mode, when the external operation has failed for a
\* fragment of a level, the run is still at that level, failure is returned
\* only when every work item of the level is finished, and no fragment of a
\* later level is started or gets an entry in the map.
C8_FailureEndsAtItsLevel ==
  \A f \in Keys(graph) :
    (mode = "parallel" /\ Failed(f)) =>
      /\ InLevels(f) /\ pos = LevelOf(f)
      /\ results = "None" =>
           \A n \in DOMAIN workers : workers[n].st \in {"done", "collected"}
      /\ \A l \in (pos + 1)..Len(parallel_groups) :
           \A n \in Range(parallel_groups[l]) :
             ~Started(n) /\ n \notin DOMAIN workers /\ n \notin DOMAIN resolved_values

\* Reached: failure returned for a level in which one fragment failed and a
\* sibling was answered, with a later level left.
C8_Witness ==
  /\ mode = "parallel" /\ results = "None"
  /\ pos < Len(parallel_groups)
  /\ \E f, g \in DOMAIN workers :
       /\ Failed(f)
       /\ workers[g].kind = "dynamic" /\ workers[g].st \in {"done", "collected"}

NoMissingDependency == \A e \in errors : e.kind # "MissingDependency"

\* C9 as claimed: after a successful resolve no substitution step finds a
\* referenced dependency without a value.
C9_MissingDependencyUnreachable == NoMissingDependency

\* The fragments a run processes: the Execution Order in sequential mode,
\* every graph key but the reserved name in parallel mode.
Processed ==
  IF mode = "sequential" THEN Range(execution_order)
  ELSE Keys(graph) \ {INPUT_NODE_NAME}

\* C9 amended: if every name referenced by a fragment the run processes is a
\* graph key or the reserved initial-input name, no substitution step finds a
\* referenced dependency without a value.
C9_DefinedReferencesAreResolved ==
  \/ NoMissingDependency
  \/ ~(mode # "" /\ \A n \in Processed :
                      KeyDeps(n) \subseteq Keys(graph) \cup {INPUT_NODE_NAME})

\* Reached: a finished parallel run with a fragment that references both
\* another fragment and the initial input.
C9_Witness ==
  /\ pc = "done" /\ mode = "parallel"
  /\ \A n \in Processed : KeyDeps(n) \subseteq Keys(graph) \cup {INPUT_NODE_NAME}
  /\ \E n \in Processed :
       /\ INPUT_NODE_NAME \in KeyDeps(n)
       /\ KeyDeps(n) \cap (Keys(graph) \ {INPUT_NODE_NAME}) # {}
       /\ Logged(n)

\* C10: the map starts with the single entry of the reserved name, and no
\* step removes a key or changes the value of a key it already holds.
C10_MapOnlyGrows ==
  [][/\ DOMAIN resolved_values = {} => DOMAIN resolved_values' \subseteq {INPUT_NODE_NAME}
     /\ \A k \in DOMAIN resolved_values :
          k \in DOMAIN resolved_values' /\ resolved_values'[k] = resolved_values[k]]_vars

InSomeLevel(groups, n) == \E l \in 1..Len(groups) : n \in Range(groups[l])

\* C11: on every graph on which resolve_execution_order succeeds, the
\* Execution Order does not contain the reserved initial-input name, and no
\* Depth Level of find_parallel_groups contains it.
C11_ReservedNameNeverScheduled ==
  ResolveSucceeded =>
    /\ INPUT_NODE_NAME \notin Range(execution_order)
    /\ ~InSomeLevel(find_parallel_groups(graph).groups, INPUT_NODE_NAME)
SingleStatic ==
  /\ Len(definitions) = 1
  /\ find_dependencies(definitions[1].template) = <<>>

\* What the claim states of a single definition without references.
SingleStaticOutcome ==
  LET name == definitions[1].name
      template == definitions[1].template
  IN /\ pc \notin {"exit", "crash"}
     /\ execution_order = <<name>>
     /\ mode = "parallel" => parallel_groups = <<<<name>>>>
     /\ NoExternalCall
     /\ pc \in {"write", "done"} =>
          /\ log_entries = <<StaticLogEntry(name, template)>>
          /\ name \in DOMAIN resolved_values /\ resolved_values[name] = template

\* C12 as claimed: for a single definition without references, whatever its
\* name, the Execution Order is [name], the Depth Levels are [[name]] and the
\* fragment is resolved as static.
C12_SingleStaticAnyName ==
  (SingleStatic /\ pc # "resolve") => SingleStaticOutcome

\* C12 amended: for a single definition without references that is named
\* "output", the Execution Order is [output], the Depth Levels are [[output]]
\* and the fragment is resolved as static: no external call, its value and
\* its log entry are the template.
C12_SingleStaticOutput ==
  (SingleStatic /\ definitions[1].name = OUTPUT /\ pc # "resolve") =>
    SingleStaticOutcome

\* Reached: a finished parallel run of the single definition output = "tt".
C12_Witness ==
  /\ pc = "done" /\ mode = "parallel"
  /\ definitions = <<[name |-> OUTPUT, template |-> <<"t", "t">>]>>
  /\ final_output = <<"t", "t">>
\* A fragment whose only dependency is the initial input.
OnlyInitialInput(n) ==
  /\ n # INPUT_NODE_NAME
  /\ \E i \in 1..Len(graph) :
       graph[i].name = n /\ Range(graph[i].deps) = {INPUT_NODE_NAME}

\* The condition of C13 on one state of a run.
IndependentFragments ==
  (mode = "parallel" /\ pc # "crash") =>
    LET independent == {n \in Names : OnlyInitialInput(n)}
    IN \A X \in independent : \A Y \in independent \ {X} :
           /\ InLevels(X) /\ InLevels(Y) /\ LevelOf(X) = LevelOf(Y)
           /\ results = "tuple" =>
                \A Z \in {X, Y} :
                  /\ Z \in DOMAIN resolved_values
                  /\ resolved_values[Z] = LLMResponse(ExpectedPrompt(Z))

\* C13: in the Depth Levels find_parallel_groups returns, two different
\* fragments that each depend only on the initial input are in the same
\* level, and whenever a parallel run returns success the map holds for each
\* of them the value generated from its own template with the initial input
\* substituted, whatever the order in which their workers started, were
\* answered and were collected.
C13_IndependentFragments == []IndependentFragments

\* Reached: a finished parallel run in which a and b depend only on the
\* initial input, have different templates and got different values.
C13_Witness ==
  /\ pc = "done" /\ mode = "parallel"
  /\ OnlyInitialInput("a") /\ OnlyInitialInput("b")
  /\ TemplateOf(definitions, "a") # TemplateOf(definitions, "b")
  /\ resolved_values["a"] # resolved_values["b"]
  /\ resolved_values[INPUT_NODE_NAME] = <<"i", "[[a]]">>
\* The fragments an execution function was given.
Given ==
  IF mode = "sequential" THEN Range(execution_order)
  ELSE UNION {Range(parallel_groups[l]) : l \in 1..Len(parallel_groups)}

MissingOutputReported ==
  /\ results # "tuple"
  /\ final_output = <<>>
  /\ ~files_written
  /\ \E e \in errors : e.kind = "MissingOutput"

Acyclic == \A n \in Keys(graph) : ~OnCycle(n)

Max(S) == CHOOSE x \in S : \A y \in S : y <= x

\* The depth as claimed: dependencies that are no graph keys do not count.
RECURSIVE ClaimedDepth(_)
ClaimedDepth(n) ==
  LET ds == KeyDeps(n) \cap Keys(graph)
  IN IF ds = {} THEN 0 ELSE 1 + Max({ClaimedDepth(d) : d \in ds})

\* The depth with every dependency counted: a name that is no graph key, and
\* the reserved name, have depth 0 and raise a dependent to depth 1.
RECURSIVE CountedDepth(_)
CountedDepth(n) ==
  IF n = INPUT_NODE_NAME \/ KeyDeps(n) = {} THEN 0
  ELSE 1 + Max({CountedDepth(d) : d \in KeyDeps(n)})

\* groups holds exactly the names of S, each once, grouped by D in ascending
\* order of D, without an empty group.
GroupedBy(D(_), S, groups) ==
  /\ \A l \in 1..Len(groups) :
       /\ groups[l] # <<>>
       /\ \A i, j \in 1..Len(groups[l]) : groups[l][i] = groups[l][j] => i = j
       /\ \A n, m \in Range(groups[l]) : D(n) = D(m)
  /\ \A l, k \in 1..Len(groups) :
       l < k => \A n \in Range(groups[l]), m \in Range(groups[k]) : D(n) < D(m)
  /\ UNION {Range(groups[l]) : l \in 1..Len(groups)} = S

\* find_parallel_groups has just been called on an acyclic graph with
\* "output"; nothing has been processed yet (the levels and the table do not
\* change afterwards).
LevelsComputed ==
  /\ mode = "parallel" /\ pos <= 1
  /\ log_entries = <<>> /\ DOMAIN workers = {} /\ inflight = <<>>
  /\ OUTPUT \in Keys(graph) /\ Acyclic

\* C15 as claimed: on an acyclic graph with "output" the Depth Levels are all
\* graph keys grouped, in ascending order, by the depth that is 0 for a key
\* without a dependency that is a graph key and otherwise 1 + the largest
\* depth of its dependencies that are graph keys.  Stated for the tables that
\* keep the reserved name for the initial input.
C15_DepthCountsKeyDependencies ==
  (LevelsComputed /\ INPUT_NODE_NAME \notin Keys(graph)) =>
    /\ pc # "crash"
    /\ GroupedBy(ClaimedDepth, Keys(graph), parallel_groups)

\* C15 amended: on an acyclic graph with "output" the Depth Levels are the
\* graph keys other than the reserved name grouped, in ascending order, by
\* the depth that is 0 for a key without any dependency and otherwise 1 + the
\* largest depth of all its dependencies, a dependency that is no graph key
\* or is the reserved name having depth 0; and that depth is the one
\* calculate_depth records for every graph key.
C15_DepthCountsEveryDependency ==
  LevelsComputed =>
    /\ pc # "crash"
    /\ GroupedBy(CountedDepth, Keys(graph) \ {INPUT_NODE_NAME}, parallel_groups)
    /\ LET st == calculate_all_depths(graph, KeySeq(graph),
                   [depths |-> <<>>, overflow |-> FALSE, val |-> 0])
       IN \A n \in Keys(graph) :
            n \in DepthKeys(st.depths) /\ DepthOf(st.depths, n) = CountedDepth(n)

\* Reached: three levels, the middle one a fragment whose only dependency is
\* the initial input.
C15_Witness ==
  /\ mode = "parallel" /\ Acyclic
  /\ parallel_groups = <<<<"b">>, <<"a">>, <<"output">>>>
  /\ KeyDeps("a") = {INPUT_NODE_NAME}
  /\ KeyDeps("b") = {}
\* C16: in the Depth Levels of an acyclic graph with "output", every
\* dependency of a fragment that is itself a fragment lies in a level
\* strictly below the fragment's, and no two fragments of one level depend on
\* each other, directly or transitively.
C16_LevelsRespectDependencies ==
  LevelsComputed =>
    /\ pc # "crash"
    /\ \A n \in Keys(graph) : InLevels(n) =>
         \A d \in KeyDeps(n) \cap Keys(graph) :
           InLevels(d) /\ LevelOf(d) < LevelOf(n)
    /\ \A l \in 1..Len(parallel_groups) :
         \A n, m \in Range(parallel_groups[l]) :
           n # m => m \notin DependsOn(n)
LevelNames == UNION {Range(parallel_groups[l]) : l \in 1..Len(parallel_groups)}

\* C17: on a graph on which resolve_execution_order succeeds, the names in
\* the Depth Levels are the names of the Execution Order, each in exactly one
\* level.  Stated for the tables that keep the reserved name for the initial
\* input.
C17_LevelsPartitionTheOrder ==
  (ResolveSucceeded /\ mode = "parallel" /\ INPUT_NODE_NAME \notin Keys(graph)) =>
    /\ pc # "crash"
    /\ LevelNames = Range(execution_order)
    /\ \A n \in LevelNames :
         Cardinality({l \in 1..Len(parallel_groups) :
                        \E i \in 1..Len(parallel_groups[l]) : parallel_groups[l][i] = n}) = 1
\* C18: on every graph on which resolve_execution_order succeeds,
\* find_parallel_groups returns Depth Levels, so the parallel run is never
\* ended by an error of find_parallel_groups.
C18_ResolverGuardsTheLevels ==
  ResolveSucceeded =>
    /\ find_parallel_groups(graph).status = "ok"
    /\ pc # "crash"
    /\ \A e \in errors : e.kind # "RecursionError"
\* The text a fragment is sent with when its dependencies are read from the
\* map as it is now.
PromptFromMap(n) ==
  substitute_dependencies(TemplateOf(definitions, n), GraphGet(graph, n),
                          resolved_values).prompt

\* The condition of C19 on one state of a run.
LevelBarrier ==
  (mode = "parallel" /\ pc # "crash") =>
    /\ \A l \in 1..Len(parallel_groups) : \A n \in Range(parallel_groups[l]) :
         /\ l > pos =>
              ~Started(n) /\ n \notin DOMAIN workers /\ n \notin DOMAIN resolved_values
         /\ l < pos =>
              Logged(n) /\ n \notin DOMAIN workers /\ n \in DOMAIN resolved_values
    /\ DOMAIN workers # {} =>
         pos <= Len(parallel_groups) /\ DOMAIN workers \subseteq Range(CurrentGroup)
    /\ \A n \in DOMAIN workers :
         (workers[n].kind = "dynamic" /\ workers[n].st # "queued") =>
           workers[n].prompt = PromptFromMap(n)
    /\ inflight # <<>> => inflight[1].prompt = PromptFromMap(inflight[1].name)
    /\ \A i \in 1..Len(log_entries) :
         log_entries[i].kind = "dynamic" =>
           log_entries[i].prompt = PromptFromMap(log_entries[i].name)

\* C19: in parallel mode no fragment of a level above the current one is
\* started before the current level is finished and written: every fragment
\* of a lower level has its value in the map and its log entry, the workers
\* are those of the current level only, and no fragment of a higher level has
\* been started.  Hence the dependency values a worker read are the values
\* the map holds for them from then on: every text sent, and every text
\* logged as sent, is the template substituted from the map as it is now.
C19_LevelBarrier == []LevelBarrier

\* Reached: output, alone in the second level, has been sent with the value
\* of a, after both a and b of the first level were answered and written.
C19_Witness ==
  /\ mode = "parallel" /\ pc = "parallel" /\ pos = 2
  /\ Len(parallel_groups[1]) = 2
  /\ \A n \in Range(parallel_groups[1]) : llm_calls[n] = 1
  /\ inflight # <<>>
  /\ inflight[1].prompt = resolved_values["a"]
LogNames == [i \in 1..Len(log_entries) |-> log_entries[i].name]

InPoolLevel ==
  /\ mode = "parallel" /\ pc = "parallel"
  /\ pos <= Len(parallel_groups) /\ Len(CurrentGroup) > 1
\* Every member of the level has been submitted and processed to its end.
PoolLevelServed ==
  /\ InPoolLevel
  /\ DOMAIN workers = Range(CurrentGroup)
  /\ \A n \in DOMAIN workers : workers[n].st \in {"done", "collected"}
WorkersBounded ==
  mode = "parallel" => Cardinality(Running) + Len(inflight) <= max_workers
LeavesLevel == InPoolLevel /\ (pos' # pos \/ pc' # pc)

\* C21: in parallel mode the fragments being processed at one moment are
\* never more than max_workers, for every level size; and every member of a
\* level run on the pool is eventually processed, also when the level is
\* larger than the limit: once the run is in such a level it reaches a state
\* in which every member has been submitted and processed to its end, and it
\* does not leave the level before.
C21_WorkersBoundedAndServed ==
  /\ []WorkersBounded
  /\ [][LeavesLevel => PoolLevelServed]_vars
  /\ InPoolLevel ~> PoolLevelServed

\* Reached: a finished run with one pool thread in which a level of two
\* fragments was sent to the external operation.
C21_Witness ==
  /\ mode = "parallel" /\ pc = "done" /\ max_workers = 1
  /\ \E l \in 1..Len(parallel_groups) :
       /\ Len(parallel_groups[l]) = 2
       /\ \A n \in Range(parallel_groups[l]) : llm_calls[n] = 1 /\ Logged(n)
OrderBefore(k) == {execution_order[j] : j \in 1..(k - 1) \cap DOMAIN execution_order}

\* C22: in sequential mode the fragments are processed one at a time in the
\* given Execution Order: the log names are the first pos - 1 names of the
\* order, the map holds the initial input and exactly those names, the only
\* fragment in the external call is the one at pos, and nothing later has
\* been sent.  A returned result has one log entry per name of the order, in
\* that order; a failure happens at a position pos of the order, with log and
\* map entries for the positions before pos only.
C22_SequentialFollowsOrder ==
  mode = "sequential" =>
    /\ pos >= 1 /\ pos <= Len(execution_order) + 1
    /\ LogNames = SubSeq(execution_order, 1, pos - 1)
    /\ DOMAIN resolved_values = {INPUT_NODE_NAME} \cup OrderBefore(pos)
    /\ Len(inflight) <= 1
    /\ inflight # <<>> => inflight[1].name = execution_order[pos]
    /\ \A n \in Names : llm_calls[n] > 0 => n \in OrderBefore(pos + 1)
    /\ results = "tuple" => LogNames = execution_order
    /\ results = "None" =>
         /\ pos <= Len(execution_order)
         /\ \E e \in errors : e.node = execution_order[pos]

\* Reached: a sequential run over an order of three names, one of them
\* generated, has returned its result.
C22_Witness ==
  /\ mode = "sequential" /\ results = "tuple"
  /\ Len(execution_order) = 3 /\ Len(log_entries) = 3
  /\ \E n \in Names : llm_calls[n] = 1
OutputLogEntries == {i \in 1..Len(log_entries) : log_entries[i].name = OUTPUT}

\* C23: a run driven by main, in either mode, that returns a result has
\* 'output' in the Resolved Value Map, and the final value it returns is that
\* value: the template of a Static 'output', the logged response of a Dynamic
\* one, never the placeholder.
C23_ReturnedValueIsOutput ==
  results = "tuple" =>
    /\ OUTPUT \in DOMAIN resolved_values
    /\ final_output = resolved_values[OUTPUT]
    /\ final_output # NotGenerated
    /\ OutputLogEntries # {}
    /\ \A i \in OutputLogEntries : log_entries[i].result = final_output
    /\ OUTPUT \in StaticNames => final_output = TemplateOf(definitions, OUTPUT)

\* Reached: a run has written its files after 'output' was generated from
\* another generated fragment.
C23_Witness ==
  /\ pc = "done" /\ results = "tuple"
  /\ llm_calls[OUTPUT] = 1
  /\ \E n \in Names \ {OUTPUT} : llm_calls[n] = 1
  /\ final_output = resolved_values[OUTPUT]
InMap(level) == {n \in Range(level) : n \in DOMAIN resolved_values}
InLog(level) == {n \in Range(level) : Logged(n)}
WorkerFailed(level) == \E e \in errors : e.node \in Range(level)

\* The condition of C24 on one state of a run.
LevelCommittedAllOrNothing ==
  mode = "parallel" =>
    /\ \A n \in DOMAIN workers : n \notin DOMAIN resolved_values /\ ~Logged(n)
    /\ \A l \in 1..Len(parallel_groups) :
         Len(parallel_groups[l]) > 1 =>
           \/ InMap(parallel_groups[l]) = {} /\ InLog(parallel_groups[l]) = {}
           \/ /\ InMap(parallel_groups[l]) = Range(parallel_groups[l])
              /\ InLog(parallel_groups[l]) = Range(parallel_groups[l])
              /\ l < pos
              /\ ~WorkerFailed(parallel_groups[l])

\* C24: in parallel mode a level of several fragments is written to the
\* Resolved Value Map and the log all or nothing: either no fragment of the
\* level has an entry in the map or in the log, or every one has both, the
\* level is behind the run and no worker of the level failed.  While the
\* workers of a level exist (also after a failure, when siblings have
\* delivered their responses) none of their fragments has an entry.
C24_LevelCommittedAllOrNothing == []LevelCommittedAllOrNothing

\* Reached: the run has ended in failure after a sibling of the failed
\* fragment delivered its response, and the level left no entry.
C24_Witness ==
  /\ mode = "parallel" /\ pc = "exit" /\ aborting
  /\ \E i \in 1..Len(group_results) :
       /\ group_results[i].value # <<>>
       /\ llm_calls[group_results[i].name] = 1
       /\ group_results[i].name \notin DOMAIN resolved_values
       /\ ~Logged(group_results[i].name)
  /\ WorkerFailed(CurrentGroup)
Scheduled ==
  IF mode = "sequential" THEN Range(execution_order)
  ELSE UNION {Range(parallel_groups[l]) : l \in 1..Len(parallel_groups)}

\* The condition of C25 on one state of a run.
OneCallPerDynamicFragment ==
  LET dynamic == Scheduled \ StaticNames
  IN /\ \A n \in Names :
          /\ llm_calls[n] <= 1
          /\ llm_calls[n] = 1 => n \in dynamic
     /\ results = "tuple" => \A n \in dynamic : llm_calls[n] = 1

\* C25: in every run of either mode the external operation is invoked at
\* most once for a fragment, never for a fragment without dependencies and
\* never for a name outside the Execution Order (sequential) or the Depth
\* Levels (parallel); when the run returns a result it has been invoked
\* exactly once for every fragment with dependencies of the order or levels.
C25_OneCallPerDynamicFragment == []OneCallPerDynamicFragment

\* Reached: a run returned its result after two fragments with dependencies
\* were each sent once and a static fragment was used without a call.
C25_Witness ==
  /\ results = "tuple"
  /\ \E n \in StaticNames : Logged(n) /\ llm_calls[n] = 0
  /\ Cardinality({n \in Scheduled : llm_calls[n] = 1}) = 2
====
